---- MODULE Spec2Model ----
(***************************************************************************)
(* Model of src/models/mod.rs: the Recipe aggregate and its RecipeBuilder. *)
(* One caller either calls Recipe::new directly or obtains a builder with  *)
(* Recipe::builder(), applies setters and finally calls build().           *)
(***************************************************************************)
EXTENDS Integers, Sequences, FiniteSets, TLC

(* ---------------- bounds and input domains ---------------- *)
MaxUuid == 2
MaxImgLen == 1
MaxKept == 1

Uuids == 1..MaxUuid
Names == {"A", "B"}
Difficulty == {"Easy", "Medium", "Hard", "Expert"}
Difficulties == {"Easy", "Expert"}
Durations == {15, 65535}
Descriptions == {"Fluffy pancakes", ""}
Directions == {"Mix and fry.", "Bake."}
Bytes == {7}
Imgs == UNION {[1..n -> Bytes] : n \in 0..MaxImgLen}
TagTexts == {"vegan", "quick"}
IngredientIds == {1, 2}
IngredientTexts == {[name |-> "flour", unit |-> "g", measurement |-> "100"],
                    [name |-> "sugar", unit |-> "cup", measurement |-> "1"]}

(* ---------------- Option<T> ---------------- *)
None == <<>>
Some(v) == <<v>>
unwrap(o) == o[1]
Option_or_swapped(o, optb) == IF optb = None THEN o ELSE optb
Option_or(o, optb) == IF o = None THEN optb ELSE o

(* Option::expect: the value, or a panic carrying msg *)
expect_or_default(o, msg) ==
    [panic |-> FALSE, val |-> IF o = None THEN 0 ELSE o[1]]
expect(o, msg) ==
    IF o = None THEN [panic |-> TRUE, msg |-> msg]
                ELSE [panic |-> FALSE, val |-> o[1]]

(* ---------------- value types ---------------- *)
Ingredient(i, t) ==
    [id |-> i, name |-> t.name, unit |-> t.unit, measurement |-> t.measurement]
Ingredients == {Ingredient(i, t) : i \in IngredientIds, t \in IngredientTexts}
RecipeTag(s) == [tag |-> s]
RecipeTags == {RecipeTag(s) : s \in TagTexts}

(* equality used by the hash sets: identifier only for Ingredient, *)
(* the wrapped text for RecipeTag                                  *)
Ingredient_eq(a, b) == a.id = b.id
RecipeTag_eq(a, b) == a.tag = b.tag

(* HashSet::insert: adds the value unless an equal one is present, in which *)
(* case the set is left as it is (the stored value is not replaced)         *)
(* T: Eq, resolved by the type of the element *)
Eq(a, b) ==
    IF "tag" \in DOMAIN a THEN RecipeTag_eq(a, b) ELSE Ingredient_eq(a, b)

HashSet_replace(s, x) ==
    {e \in s : ~Eq(e, x)} \cup {x}
HashSet_insert(s, x) ==
    IF \E e \in s : Eq(e, x) THEN s ELSE s \cup {x}

(* the values a HashSet can hold: no two equal elements *)
IsHashSet(s) == \A a, b \in s : Eq(a, b) => a = b
IngredientSets == {s \in SUBSET Ingredients : IsHashSet(s)}
TagSets == SUBSET RecipeTags

(* ---------------- Recipe ---------------- *)
Recipe_new(id, name, difficulty, duration, description, ingredients, directions, tags, img) ==
    [id |-> id, name |-> name, difficulty |-> difficulty,
     duration |-> duration, description |-> description,
     ingredients |-> ingredients, directions |-> directions,
     tags |-> tags, img |-> img]

(* ---------------- RecipeBuilder ---------------- *)
RecipeBuilder_new_img ==
    [id |-> None, name |-> None, difficulty |-> None, duration |-> None,
     description |-> None, ingredients |-> {}, directions |-> None,
     tags |-> {}, img |-> Some(<<0>>)]
RecipeBuilder_new ==
    [id |-> None, name |-> None, difficulty |-> None, duration |-> None,
     description |-> None, ingredients |-> {}, directions |-> None,
     tags |-> {}, img |-> None]

Recipe_builder == RecipeBuilder_new

RecipeBuilder_id_fresh(self, id) == [RecipeBuilder_new EXCEPT !.id = Some(id)]
RecipeBuilder_id(self, id) == [self EXCEPT !.id = Some(id)]

RecipeBuilder_name_keep(self, name) ==
    IF self.name = None THEN [self EXCEPT !.name = Some(name)] ELSE self
RecipeBuilder_name(self, name) == [self EXCEPT !.name = Some(name)]

RecipeBuilder_difficulty(self, difficulty) ==
    [self EXCEPT !.difficulty = Some(difficulty)]

RecipeBuilder_duration_checked(self, duration) ==
    IF duration > 32767 THEN [panic |-> TRUE, msg |-> "duration out of range"]
    ELSE [self EXCEPT !.duration = Some(duration)]
RecipeBuilder_duration(self, duration) ==
    [self EXCEPT !.duration = Some(duration)]

RecipeBuilder_description_paste(self, description) ==
    [self EXCEPT !.directions = Some(description)]
RecipeBuilder_description(self, description) ==
    [self EXCEPT !.description = Some(description)]

RecipeBuilder_directions_noop(self, directions) == self
RecipeBuilder_directions(self, directions) ==
    [self EXCEPT !.directions = Some(directions)]

RecipeBuilder_ingredient_push(self, ingredient) ==
    [self EXCEPT !.ingredients = @ \cup {ingredient}]
RecipeBuilder_ingredient(self, ingredient) ==
    [self EXCEPT !.ingredients = HashSet_insert(@, ingredient)]

RecipeBuilder_tag_reset(self, tag) ==
    [self EXCEPT !.tags = {tag}]
RecipeBuilder_tag(self, tag) ==
    [self EXCEPT !.tags = HashSet_insert(@, tag)]

RecipeBuilder_img_empty(self, img) ==
    [self EXCEPT !.img = IF img = <<>> THEN None ELSE Some(img)]
RecipeBuilder_img(self, img) == [self EXCEPT !.img = Some(img)]

(* the expect messages of build(); the back quotes around Recipe are left out *)
MsgId == "cannot build Recipe struct without id set"
MsgName == "cannot build Recipe struct without name set"
MsgDifficulty == "cannot build Recipe without difficulty set"
MsgDuration == "cannot build Recipe without duration set"
MsgDescription == "cannot build Recipe without description set"
MsgDirections == "cannot build Recipe without directions set"

Returned(r) == [panic |-> FALSE, val |-> r]
Panicked(m) == [panic |-> TRUE, msg |-> m]

(* build(): the field expressions of the struct literal are evaluated in the *)
(* order written; the first expect on an unset field panics                  *)
RecipeBuilder_build_rev(self) ==
    LET id == expect(self.id, MsgId)
        name == expect(self.name, MsgName)
        difficulty == expect(self.difficulty, MsgDifficulty)
        duration == expect(self.duration, MsgDuration)
        description == expect(self.description, MsgDescription)
        directions == expect(self.directions, MsgDirections)
    IN  IF directions.panic THEN Panicked(directions.msg)
        ELSE IF description.panic THEN Panicked(description.msg)
        ELSE IF duration.panic THEN Panicked(duration.msg)
        ELSE IF difficulty.panic THEN Panicked(difficulty.msg)
        ELSE IF name.panic THEN Panicked(name.msg)
        ELSE IF id.panic THEN Panicked(id.msg)
        ELSE Returned([id |-> id.val, name |-> name.val,
                       difficulty |-> difficulty.val,
                       duration |-> duration.val,
                       description |-> description.val,
                       directions |-> directions.val,
                       ingredients |-> self.ingredients,
                       tags |-> self.tags,
                       img |-> unwrap(Option_or(self.img, Some(<<>>)))])
RecipeBuilder_build(self) ==
    LET id == expect(self.id, MsgId)
        name == expect(self.name, MsgName)
        difficulty == expect(self.difficulty, MsgDifficulty)
        duration == expect(self.duration, MsgDuration)
        description == expect(self.description, MsgDescription)
        directions == expect(self.directions, MsgDirections)
    IN  IF id.panic THEN Panicked(id.msg)
        ELSE IF name.panic THEN Panicked(name.msg)
        ELSE IF difficulty.panic THEN Panicked(difficulty.msg)
        ELSE IF duration.panic THEN Panicked(duration.msg)
        ELSE IF description.panic THEN Panicked(description.msg)
        ELSE IF directions.panic THEN Panicked(directions.msg)
        ELSE Returned([id |-> id.val, name |-> name.val,
                       difficulty |-> difficulty.val,
                       duration |-> duration.val,
                       description |-> description.val,
                       directions |-> directions.val,
                       ingredients |-> self.ingredients,
                       tags |-> self.tags,
                       img |-> unwrap(Option_or(self.img, Some(<<>>)))])

(* ---------------- state ---------------- *)
VARIABLES
    pc,          \* caller: "start", "building", "done", "panicked"
    builder,     \* Option<RecipeBuilder> owned by the caller
    moved,       \* Option<RecipeBuilder>: the builder that was moved into build()
    result,      \* Option<Recipe>: the Recipe the caller holds
    via,         \* "none", "new" or "build": the operation that made result
    panic_msg,   \* Option<String>: message of the panic that unwinds the caller
    called,      \* history: names of the builder methods called so far
    last,        \* history: last argument of each scalar setter
    first_name,  \* history: argument of the first name() call
    first_added, \* history: per ingredient id, the first ingredient added
    last_added,  \* history: per ingredient id, the last ingredient added
    tag_repeated, \* history: some tag() call passed a tag that had been added before
    kept         \* Recipes the caller holds from earlier constructions, oldest first

vars == <<pc, builder, moved, result, via, panic_msg, called, last,
          first_name, first_added, last_added, tag_repeated, kept>>

Mandatory == {"id", "name", "difficulty", "duration", "description", "directions"}
Scalars == Mandatory \cup {"img"}
CheckOrder == <<"id", "name", "difficulty", "duration", "description", "directions">>

Init ==
    /\ pc = "start"
    /\ builder = None
    /\ moved = None
    /\ result = None
    /\ via = "none"
    /\ panic_msg = None
    /\ called = {}
    /\ last = [f \in Scalars |-> None]
    /\ first_name = None
    /\ first_added = [i \in IngredientIds |-> None]
    /\ last_added = [i \in IngredientIds |-> None]
    /\ tag_repeated = FALSE
    /\ kept = <<>>

(* Recipe::new called directly with all nine attributes *)
NewRecipeWith(id, name, difficulty, duration, description, ingredients, directions, tags, img) ==
    /\ pc = "start"
    /\ result' = Some(Recipe_new(id, name, difficulty, duration, description,
                                ingredients, directions, tags, img))
    /\ via' = "new"
    /\ pc' = "done"
    /\ UNCHANGED <<builder, moved, panic_msg, called, last, first_name,
                   first_added, last_added, tag_repeated, kept>>

NewRecipe ==
    /\ pc = "start"
    /\ \E id \in Uuids, name \in Names, difficulty \in Difficulties,
          duration \in Durations, description \in Descriptions,
          ingredients \in IngredientSets, directions \in Directions,
          tags \in TagSets, img \in Imgs :
          NewRecipeWith(id, name, difficulty, duration, description,
                        ingredients, directions, tags, img)

(* Recipe::builder() *)
NewBuilder ==
    /\ pc = "start"
    /\ builder' = Some(Recipe_builder)
    /\ pc' = "building"
    /\ UNCHANGED <<moved, result, via, panic_msg, called, last, first_name,
                   first_added, last_added, tag_repeated, kept>>

Scalar(f, v, b) ==
    /\ pc = "building"
    /\ builder' = Some(b)
    /\ called' = called \cup {f}
    /\ last' = [last EXCEPT ![f] = Some(v)]
    /\ UNCHANGED <<pc, moved, result, via, panic_msg, first_added, last_added,
                   tag_repeated, kept>>

SetId(v) ==
    /\ Scalar("id", v, RecipeBuilder_id(unwrap(builder), v))
    /\ UNCHANGED first_name
SetName(v) ==
    /\ Scalar("name", v, RecipeBuilder_name(unwrap(builder), v))
    /\ first_name' = Option_or(first_name, Some(v))
SetDifficulty(v) ==
    /\ Scalar("difficulty", v, RecipeBuilder_difficulty(unwrap(builder), v))
    /\ UNCHANGED first_name
SetDuration(v) ==
    /\ Scalar("duration", v, RecipeBuilder_duration(unwrap(builder), v))
    /\ UNCHANGED first_name
SetDescription(v) ==
    /\ Scalar("description", v, RecipeBuilder_description(unwrap(builder), v))
    /\ UNCHANGED first_name
SetDirections(v) ==
    /\ Scalar("directions", v, RecipeBuilder_directions(unwrap(builder), v))
    /\ UNCHANGED first_name
SetImg(v) ==
    /\ Scalar("img", v, RecipeBuilder_img(unwrap(builder), v))
    /\ UNCHANGED first_name

AddIngredient(x) ==
    /\ pc = "building"
    /\ builder' = Some(RecipeBuilder_ingredient(unwrap(builder), x))
    /\ called' = called \cup {"ingredient"}
    /\ first_added' = [first_added EXCEPT ![x.id] = Option_or(@, Some(x))]
    /\ last_added' = [last_added EXCEPT ![x.id] = Some(x)]
    /\ UNCHANGED <<pc, moved, result, via, panic_msg, last, first_name,
                   tag_repeated, kept>>

AddTag(t) ==
    /\ pc = "building"
    /\ builder' = Some(RecipeBuilder_tag(unwrap(builder), t))
    /\ called' = called \cup {"tag"}
    /\ tag_repeated' = (tag_repeated \/ t \in unwrap(builder).tags)
    /\ UNCHANGED <<pc, moved, result, via, panic_msg, last, first_name,
                   first_added, last_added, kept>>

Build_reuse ==
    /\ pc = "building"
    /\ LET r == RecipeBuilder_build(unwrap(builder))
       IN  IF r.panic
           THEN /\ pc' = "panicked"
                /\ panic_msg' = Some(r.msg)
                /\ UNCHANGED <<result, via, kept>>
           ELSE /\ pc' = "done"
                /\ result' = Some(r.val)
                /\ via' = "build"
                /\ kept' = [i \in 1..Len(kept) |-> r.val]
                /\ UNCHANGED panic_msg
    /\ moved' = builder
    /\ builder' = None
    /\ UNCHANGED <<called, last, first_name, first_added, last_added,
                   tag_repeated>>
Build_borrow ==
    /\ pc = "building"
    /\ LET r == RecipeBuilder_build(unwrap(builder))
       IN  IF r.panic
           THEN /\ pc' = "panicked"
                /\ panic_msg' = Some(r.msg)
                /\ UNCHANGED <<result, via>>
           ELSE /\ pc' = "building"
                /\ result' = Some(r.val)
                /\ via' = "build"
                /\ UNCHANGED panic_msg
    /\ moved' = builder
    /\ UNCHANGED <<builder, called, last, first_name, first_added, last_added,
                   tag_repeated, kept>>
Build_result ==
    /\ pc = "building"
    /\ LET r == RecipeBuilder_build(unwrap(builder))
       IN  IF r.panic
           THEN /\ pc' = "done"
                /\ UNCHANGED <<result, via, panic_msg>>
           ELSE /\ pc' = "done"
                /\ result' = Some(r.val)
                /\ via' = "build"
                /\ UNCHANGED panic_msg
    /\ moved' = builder
    /\ builder' = None
    /\ UNCHANGED <<called, last, first_name, first_added, last_added,
                   tag_repeated, kept>>
(* build(self): consumes the builder; returns the Recipe or panics *)
Build ==
    /\ pc = "building"
    /\ LET r == RecipeBuilder_build(unwrap(builder))
       IN  IF r.panic
           THEN /\ pc' = "panicked"
                /\ panic_msg' = Some(r.msg)
                /\ UNCHANGED <<result, via>>
           ELSE /\ pc' = "done"
                /\ result' = Some(r.val)
                /\ via' = "build"
                /\ UNCHANGED panic_msg
    /\ moved' = builder
    /\ builder' = None
    /\ UNCHANGED <<called, last, first_name, first_added, last_added,
                   tag_repeated, kept>>

Next ==
    \/ NewRecipe
    \/ NewBuilder
    \/ \E v \in Uuids : SetId(v)
    \/ \E v \in Names : SetName(v)
    \/ \E v \in Difficulties : SetDifficulty(v)
    \/ \E v \in Durations : SetDuration(v)
    \/ \E v \in Descriptions : SetDescription(v)
    \/ \E v \in Directions : SetDirections(v)
    \/ \E v \in Imgs : SetImg(v)
    \/ \E x \in Ingredients : AddIngredient(x)
    \/ \E t \in RecipeTags : AddTag(t)
    \/ Build

Spec == Init /\ [][Next]_vars

(* ---------------- a caller that constructs several Recipes ---------------- *)
(* The caller puts the Recipe it holds aside and starts another             *)
(* construction (Recipe::new or Recipe::builder() are associated functions  *)
(* and can be called at any time); the histories describe the current       *)
(* construction only.                                                       *)
Again ==
    /\ pc = "done"
    /\ result # None
    /\ Len(kept) < MaxKept
    /\ kept' = Append(kept, unwrap(result))
    /\ result' = None
    /\ via' = "none"
    /\ moved' = None
    /\ pc' = "start"
    /\ called' = {}
    /\ last' = [f \in Scalars |-> None]
    /\ first_name' = None
    /\ first_added' = [i \in IngredientIds |-> None]
    /\ last_added' = [i \in IngredientIds |-> None]
    /\ tag_repeated' = FALSE
    /\ UNCHANGED <<builder, panic_msg>>

\* inputs of the small specifications: one value per field, two names
SmallUuids == {1}
SmallDifficulties == {"Easy"}
SmallDurations == {15}
SmallDescriptions == {"Fluffy pancakes"}
SmallDirections == {"Mix and fry."}
SmallImgs == {<<7>>}
SmallIngredients == {x \in Ingredients : x.id = 1 /\ x.name = "flour"}
SmallTags == {RecipeTag("vegan")}

NewRecipeSmall ==
    /\ pc = "start"
    /\ \E id \in SmallUuids, name \in Names, difficulty \in SmallDifficulties,
          duration \in SmallDurations, description \in SmallDescriptions,
          ingredients \in SUBSET SmallIngredients,
          directions \in SmallDirections,
          tags \in SUBSET SmallTags, img \in SmallImgs :
          NewRecipeWith(id, name, difficulty, duration, description,
                        ingredients, directions, tags, img)

NextSmall ==
    \/ NewRecipeSmall
    \/ NewBuilder
    \/ \E v \in SmallUuids : SetId(v)
    \/ \E v \in Names : SetName(v)
    \/ \E v \in SmallDifficulties : SetDifficulty(v)
    \/ \E v \in SmallDurations : SetDuration(v)
    \/ \E v \in SmallDescriptions : SetDescription(v)
    \/ \E v \in SmallDirections : SetDirections(v)
    \/ \E v \in SmallImgs : SetImg(v)
    \/ \E x \in SmallIngredients : AddIngredient(x)
    \/ \E t \in SmallTags : AddTag(t)
    \/ Build

(* one construction, small inputs *)
SpecSmall == Init /\ [][NextSmall]_vars

NextLife == NextSmall \/ Again

(* several constructions, small inputs *)
SpecLife == Init /\ [][NextLife]_vars

(* ---------------- helpers of the properties ---------------- *)
Msg(f) ==
    CASE f = "id" -> MsgId
      [] f = "name" -> MsgName
      [] f = "difficulty" -> MsgDifficulty
      [] f = "duration" -> MsgDuration
      [] f = "description" -> MsgDescription
      [] f = "directions" -> MsgDirections

\* the mandatory fields no setter call has set so far
Unset == Mandatory \ called
\* the first of them in the order id, name, difficulty, duration, description, directions
FirstUnset ==
    CheckOrder[CHOOSE i \in 1..Len(CheckOrder) :
                  /\ CheckOrder[i] \in Unset
                  /\ \A j \in 1..(i - 1) : CheckOrder[j] \notin Unset]

BuildCalled == moved # None
Built == pc = "done" /\ via = "build"
BuilderFields == {"id", "name", "difficulty", "duration", "description",
                  "ingredients", "directions", "tags", "img"}
IsRecipeBuilder(b) == DOMAIN b = BuilderFields
UniqueById(s) == \A a, b \in s : a.id = b.id => a = b

(* C1: build() returns a Recipe if and only if each of the six mandatory    *)
(* fields has been set at least once, in every builder state reachable by   *)
(* setter calls; ingredient, tag and img calls have no part in it.          *)
C1_Completeness ==
    /\ pc = "building" =>
          (~RecipeBuilder_build(unwrap(builder)).panic <=> Unset = {})
    /\ BuildCalled => ((pc = "done" /\ result # None) <=> Unset = {})
    /\ BuildCalled => ((pc = "panicked" /\ result = None) <=> Unset # {})

C1_Witness ==
    /\ Built
    /\ Mandatory \subseteq called
    /\ result # None

(* C2: a failing build() reports the first unset field in the order id,     *)
(* name, difficulty, duration, description, directions, whatever the order  *)
(* of the setter calls was.                                                 *)
C2_FirstMissing ==
    /\ pc = "panicked" => panic_msg = Some(Msg(FirstUnset))
    /\ (pc = "building" /\ Unset # {}) =>
          LET r == RecipeBuilder_build(unwrap(builder))
          IN  r.panic /\ r.msg = Msg(FirstUnset)

C2_Witness ==
    /\ pc = "panicked"
    /\ Unset = {"duration", "directions"}
    /\ panic_msg = Some(MsgDuration)

(* C3 as stated: after build() on an incomplete builder the caller keeps    *)
(* running and holds an error value.                                        *)
C3_Orig_ErrorValue ==
    (BuildCalled /\ Unset # {}) => (pc = "done" /\ panic_msg = None)

(* C3 amended: build() on an incomplete builder panics: the caller unwinds  *)
(* with the expect message of the missing field and holds no value, neither *)
(* a Recipe nor an error value.                                             *)
C3_FailureIsPanic ==
    (BuildCalled /\ Unset # {}) =>
        /\ pc = "panicked"
        /\ result = None
        /\ panic_msg # None
        /\ unwrap(panic_msg) \in {Msg(f) : f \in Mandatory}

C3_Witness ==
    /\ BuildCalled
    /\ pc = "panicked"
    /\ "name" \in called
    /\ "id" \in Unset
    /\ result = None

(* C4 as stated: every existing Recipe was produced by build() on a builder *)
(* whose six mandatory fields were all set.                                 *)
C4_Orig_OnlyBuild ==
    result # None =>
        /\ via = "build"
        /\ moved # None
        /\ \A f \in Mandatory : unwrap(moved)[f] # None

(* C4 amended: every existing Recipe was produced either by build() on a    *)
(* builder whose six mandatory fields were all set, or by the public        *)
(* constructor Recipe::new, which takes all nine attributes; no setter and  *)
(* no failed build() creates a Recipe.                                      *)
C4_BuildOrNew ==
    /\ result # None =>
          /\ pc = "done"
          /\ \/ via = "new" /\ moved = None /\ called = {}
             \/ /\ via = "build"
                /\ moved # None
                /\ \A f \in Mandatory : unwrap(moved)[f] # None
    /\ pc \in {"start", "building", "panicked"} => result = None

C4_Witness ==
    /\ result # None
    /\ via = "new"
    /\ moved = None

(* C5: build() on a builder with all six mandatory fields set and on which  *)
(* ingredient(), tag() and img() were never called returns a Recipe with no *)
(* ingredients, no tags and empty image bytes; the mandatory fields carry   *)
(* supplied values, never defaults.                                         *)
C5_Defaulting ==
    Built =>
        /\ "ingredient" \notin called => unwrap(result).ingredients = {}
        /\ "tag" \notin called => unwrap(result).tags = {}
        /\ "img" \notin called => unwrap(result).img = <<>>
        /\ \A f \in Mandatory :
              /\ f \in called
              /\ unwrap(result)[f] = unwrap(last[f])

C5_Witness ==
    /\ Built
    /\ called = Mandatory
    /\ unwrap(result).ingredients = {}
    /\ unwrap(result).tags = {}
    /\ unwrap(result).img = <<>>

(* C6: each scalar field of the builder holds the argument of the most      *)
(* recent call of its setter, and a successful build() returns a Recipe     *)
(* with these values.                                                       *)
C6_LastWriteWins ==
    /\ builder # None => \A f \in Scalars : unwrap(builder)[f] = last[f]
    /\ Built =>
          /\ \A f \in Mandatory : unwrap(result)[f] = unwrap(last[f])
          /\ last["img"] # None => unwrap(result).img = unwrap(last["img"])

C6_Witness ==
    /\ Built
    /\ first_name = Some("A")
    /\ last["name"] = Some("B")
    /\ unwrap(result).name = "B"

(* C7: the ingredient set of the builder, and of a Recipe built from it,    *)
(* holds at most one entry per ingredient identifier, also when ingredients *)
(* with the same identifier and different texts were added.                 *)
C7_IngredientUnique ==
    /\ builder # None => UniqueById(unwrap(builder).ingredients)
    /\ result # None => UniqueById(unwrap(result).ingredients)

C7_Witness ==
    /\ Built
    /\ \E i \in IngredientIds :
          /\ first_added[i] # None
          /\ last_added[i] # first_added[i]
          /\ Cardinality({e \in unwrap(result).ingredients : e.id = i}) = 1

(* C8 as stated: the entry of an identifier in the built Recipe carries the *)
(* texts of the ingredient added last.                                      *)
C8_Orig_LastKept ==
    Built => \A i \in IngredientIds :
        last_added[i] # None => unwrap(last_added[i]) \in unwrap(result).ingredients

(* C8 amended: after adding two ingredients with the same identifier and    *)
(* different texts, the built Recipe has exactly one entry for that         *)
(* identifier, and it carries the texts of the ingredient added first.      *)
C8_FirstKept ==
    Built => \A i \in IngredientIds :
        first_added[i] # None =>
            {e \in unwrap(result).ingredients : e.id = i} = {unwrap(first_added[i])}

C8_Witness ==
    /\ Built
    /\ \E i \in IngredientIds :
          /\ first_added[i] # None
          /\ unwrap(first_added[i]).name = "flour"
          /\ unwrap(last_added[i]).name = "sugar"
          /\ unwrap(first_added[i]) \in unwrap(result).ingredients

(* C9: tag() is idempotent per text: adding a tag already in the set leaves *)
(* the builder as it is, adding a new one grows the set by exactly that     *)
(* tag, and the set holds one entry per text.                               *)
C9_TagDedup ==
    builder # None =>
        LET b == unwrap(builder)
        IN  /\ \A t \in RecipeTags :
                 LET b1 == RecipeBuilder_tag(b, t)
                 IN  /\ t \in b.tags => b1 = b
                     /\ RecipeBuilder_tag(b1, t) = b1
                     /\ b1.tags = b.tags \cup {t}
                     /\ b.tags = {} => Cardinality(RecipeBuilder_tag(b1, t).tags) = 1
            /\ \A u, v \in b.tags : u.tag = v.tag => u = v
            /\ "tag" \in called <=> b.tags # {}

C9_Witness ==
    /\ pc = "building"
    /\ tag_repeated
    /\ Cardinality(unwrap(builder).tags) = 1

(* C10: while the builder has not been finalized every setter and adder is  *)
(* enabled for every argument and yields a builder; a panic comes from      *)
(* build() only.                                                            *)
C10_SettersSucceed ==
    /\ pc = "building" =>
          LET b == unwrap(builder)
          IN  /\ \A v \in Uuids :
                    IsRecipeBuilder(RecipeBuilder_id(b, v)) /\ ENABLED SetId(v)
              /\ \A v \in Names :
                    IsRecipeBuilder(RecipeBuilder_name(b, v)) /\ ENABLED SetName(v)
              /\ \A v \in Difficulties :
                    /\ IsRecipeBuilder(RecipeBuilder_difficulty(b, v))
                    /\ ENABLED SetDifficulty(v)
              /\ \A v \in Durations :
                    /\ IsRecipeBuilder(RecipeBuilder_duration(b, v))
                    /\ ENABLED SetDuration(v)
              /\ \A v \in Descriptions :
                    /\ IsRecipeBuilder(RecipeBuilder_description(b, v))
                    /\ ENABLED SetDescription(v)
              /\ \A v \in Directions :
                    /\ IsRecipeBuilder(RecipeBuilder_directions(b, v))
                    /\ ENABLED SetDirections(v)
              /\ \A v \in Imgs :
                    IsRecipeBuilder(RecipeBuilder_img(b, v)) /\ ENABLED SetImg(v)
              /\ \A x \in Ingredients :
                    /\ IsRecipeBuilder(RecipeBuilder_ingredient(b, x))
                    /\ ENABLED AddIngredient(x)
              /\ \A t \in RecipeTags :
                    IsRecipeBuilder(RecipeBuilder_tag(b, t)) /\ ENABLED AddTag(t)
    /\ builder # None => pc = "building" /\ IsRecipeBuilder(unwrap(builder))
    /\ (pc = "panicked" \/ panic_msg # None) => BuildCalled

C10_Witness ==
    /\ pc = "building"
    /\ called = Scalars \cup {"ingredient", "tag"}
    /\ panic_msg = None

AnySetter ==
    \/ \E v \in Uuids : SetId(v)
    \/ \E v \in Names : SetName(v)
    \/ \E v \in Difficulties : SetDifficulty(v)
    \/ \E v \in Durations : SetDuration(v)
    \/ \E v \in Descriptions : SetDescription(v)
    \/ \E v \in Directions : SetDirections(v)
    \/ \E v \in Imgs : SetImg(v)
    \/ \E x \in Ingredients : AddIngredient(x)
    \/ \E t \in RecipeTags : AddTag(t)

(* C11: build() consumes the builder, whether it succeeds or fails: after   *)
(* it the caller owns no builder, no setter and no further build() can be   *)
(* applied, and the Recipe held is the one that call returned.              *)
C11_BuilderConsumed ==
    BuildCalled =>
        /\ builder = None
        /\ pc \in {"done", "panicked"}
        /\ ~ENABLED AnySetter
        /\ ~ENABLED Build
        /\ result # None =>
              result = Some(RecipeBuilder_build(unwrap(moved)).val)

C11_Witness ==
    /\ BuildCalled
    /\ pc = "done"
    /\ builder = None
    /\ "tag" \in called

(* C13: when build() succeeds every attribute of the Recipe equals the      *)
(* builder's value at the call: the six mandatory scalars, the ingredient   *)
(* and tag sets exactly, and img, which is the empty sequence only when it  *)
(* was unset.                                                               *)
C13_BuildFidelity ==
    Built =>
        LET b == unwrap(moved)
            r == unwrap(result)
        IN  /\ \A f \in Mandatory : b[f] = Some(r[f])
            /\ r.ingredients = b.ingredients
            /\ r.tags = b.tags
            /\ b.img # None => r.img = unwrap(b.img)
            /\ b.img = None => r.img = <<>>

C13_Witness ==
    /\ Built
    /\ unwrap(moved).img = Some(<<7>>)
    /\ unwrap(result).img = <<7>>
    /\ Cardinality(unwrap(result).ingredients) = 2
    /\ Cardinality(unwrap(result).tags) = 2

(* C14: setter calls on different fields commute: from every reachable      *)
(* builder state, applying two of them in either order gives the same       *)
(* builder and so the same build() outcome; the builder is determined by    *)
(* the last value written per scalar field and the items added per          *)
(* collection.                                                              *)
SetterCalls ==
    {<<"id", v>> : v \in Uuids} \cup {<<"name", v>> : v \in Names}
    \cup {<<"difficulty", v>> : v \in Difficulties}
    \cup {<<"duration", v>> : v \in Durations}
    \cup {<<"description", v>> : v \in Descriptions}
    \cup {<<"directions", v>> : v \in Directions}
    \cup {<<"img", v>> : v \in Imgs}
    \cup {<<"ingredients", x>> : x \in Ingredients}
    \cup {<<"tags", t>> : t \in RecipeTags}

\* the builder after the setter call c = <<field, argument>>
Apply(b, c) ==
    CASE c[1] = "id" -> RecipeBuilder_id(b, c[2])
      [] c[1] = "name" -> RecipeBuilder_name(b, c[2])
      [] c[1] = "difficulty" -> RecipeBuilder_difficulty(b, c[2])
      [] c[1] = "duration" -> RecipeBuilder_duration(b, c[2])
      [] c[1] = "description" -> RecipeBuilder_description(b, c[2])
      [] c[1] = "directions" -> RecipeBuilder_directions(b, c[2])
      [] c[1] = "img" -> RecipeBuilder_img(b, c[2])
      [] c[1] = "ingredients" -> RecipeBuilder_ingredient(b, c[2])
      [] c[1] = "tags" -> RecipeBuilder_tag(b, c[2])

C14_OrderIndependence ==
    builder # None =>
        LET b == unwrap(builder)
        IN  /\ \A c, d \in SetterCalls :
                 c[1] # d[1] =>
                    /\ Apply(Apply(b, c), d) = Apply(Apply(b, d), c)
                    /\ RecipeBuilder_build(Apply(Apply(b, c), d)).panic
                         = RecipeBuilder_build(Apply(Apply(b, d), c)).panic
            /\ \A f \in Scalars : b[f] = last[f]
            /\ b.ingredients =
                  {unwrap(first_added[i]) : i \in {j \in IngredientIds : first_added[j] # None}}

C14_Witness ==
    /\ pc = "building"
    /\ called = {"name", "directions", "tag"}
    /\ first_name = Some("A")
    /\ unwrap(builder).name = Some("B")
    /\ unwrap(builder).directions = Some("Mix and fry.")

(* C15: each setter changes only its own field of the builder and leaves    *)
(* the other eight as they were.                                            *)
C15_Frame ==
    builder # None =>
        LET b == unwrap(builder)
        IN  \A c \in SetterCalls :
                LET b1 == Apply(b, c)
                IN  \A g \in BuilderFields \ {c[1]} : b1[g] = b[g]

C15_Witness ==
    /\ pc = "building"
    /\ called = {"name", "ingredient", "id"}
    /\ unwrap(builder).name = Some("A")
    /\ unwrap(builder).tags = {}
    /\ unwrap(builder).img = None

(* C16: no setter call returns a field to the unset state or removes an     *)
(* element of a collection: a set field stays set, the ingredient and tag   *)
(* sets never shrink, and a builder on which build() would succeed stays    *)
(* buildable.                                                               *)
C16_PresenceMonotonic ==
    [][(builder # None /\ builder' # None) =>
          LET b == unwrap(builder)
              b1 == unwrap(builder')
          IN  /\ \A f \in Scalars : b[f] # None => b1[f] # None
              /\ b.ingredients \subseteq b1.ingredients
              /\ b.tags \subseteq b1.tags
              /\ ~RecipeBuilder_build(b).panic => ~RecipeBuilder_build(b1).panic
      ]_vars

C16_Witness ==
    /\ pc = "building"
    /\ ~RecipeBuilder_build(unwrap(builder)).panic
    /\ unwrap(builder).img = Some(<<>>)
    /\ tag_repeated
    /\ first_name # last["name"]

(* C12: once a Recipe has been produced no operation changes any of its     *)
(* nine attributes: the Recipe the caller holds, and every Recipe it put    *)
(* aside earlier, has in the next state the value it has now, whatever the  *)
(* caller does (Recipe::new, Recipe::builder(), setters, build()).          *)
C12_RecipeImmutable ==
    [][/\ Len(kept') >= Len(kept)
       /\ \A i \in 1..Len(kept) : kept'[i] = kept[i]
       /\ result # None =>
             \/ result' = result
             \/ /\ Len(kept') = Len(kept) + 1
                /\ kept'[Len(kept')] = unwrap(result)
      ]_vars

C12_Witness ==
    /\ Len(kept) = 1
    /\ kept[1].name = "A"
    /\ Built
    /\ unwrap(result).name = "B"
    /\ unwrap(result).tags # kept[1].tags

====
